---- MODULE Spec2Model ----
(***************************************************************************)
(* BattleBottle AI backend (src/app.py): the ingest handler                *)
(* submit_simulation, the read handlers get_recommendations and            *)
(* get_global_stats, the tier function, the advisor glue and the fallback  *)
(* rule engine.                                                            *)
(*                                                                         *)
(* The three SQLite tables are the state.  Each handler is one action: it  *)
(* runs on a working copy of the tables, and the copy replaces the tables  *)
(* only when the handler reaches conn.commit().  An exception before the   *)
(* commit drops the connection, which discards the working copy.           *)
(*                                                                         *)
(* The server runs every request in a thread of its own.  Where the order  *)
(* of the statements of concurrent requests matters, the same handlers are *)
(* taken statement by statement: `threads` holds each request's position   *)
(* and locals, `db_lock` the write lock of the database file.              *)
(***************************************************************************)
EXTENDS Integers, Sequences, FiniteSets, TLC

VARIABLES
    simulations,          \* table simulations: sequence of rows, in rowid order
    sqlite_sequence,      \* AUTOINCREMENT counter of table simulations
    scenario_stats,       \* table scenario_stats: set of rows, UNIQUE(map, enemy, budget_tier)
    custom_defense_stats, \* table custom_defense_stats: set of rows, UNIQUE(map, enemy)
    GROQ_API_KEY,         \* "" when no credential is configured
    req,                  \* the request last handled
    env,                  \* what the store and the network did during it
    resp,                 \* the response returned for it
    context,              \* what generate_ai_recommendations last put in its prompt
    threads,              \* per server thread: the request in flight, its position and locals
    db_lock               \* who holds the write lock of the database file

vars == <<simulations, sqlite_sequence, scenario_stats, custom_defense_stats,
          GROQ_API_KEY, req, env, resp, context, threads, db_lock>>

tables == <<simulations, sqlite_sequence, scenario_stats, custom_defense_stats>>

(***************************************************************************)
(* Bounds of the model and constants of the program.                       *)
(***************************************************************************)
MaxSims == 3                  \* ingests accepted before the model stops ingesting
MaxTextLen == 3               \* tokens in an advisor reply (SpecAdvisor)
MaxThreads == 2               \* requests the server handles at the same time
BASE_SIMULATION_COUNT == 120
HISTORY_LIMIT == 50
TOP_UNITS == 5
DEFAULT_RECOMMEND_BUDGET == 2000000
RAVEN_MIN_BUDGET == 500000

(***************************************************************************)
(* Python values.                                                          *)
(***************************************************************************)
\* dict.get(key, default)
Get(d, k, default) == IF k \in DOMAIN d THEN d[k] ELSE default

\* JSON null in a text field of the payload is None in Python and NULL in the
\* store.  The model writes it as a text that names no map and no enemy.
NULL == "NULL"

\* SQL `a = b`, and the comparison of a UNIQUE constraint: never true of NULL.
SqlEq(a, b) == a # NULL /\ b # NULL /\ a = b

\* A JSON array or JSON null, as request.json delivers it.
JsonList(items) == [isNone |-> FALSE, items |-> items]
JsonNull == [isNone |-> TRUE, items |-> <<>>]

\* json.dumps of such a value gives a text; json.loads gives the value back.
json_dumps(v) == [text |-> IF v.isNone THEN "null" ELSE "array", items |-> v.items]
json_loads(t) == [isNone |-> t.text = "null", items |-> t.items]

\* len(x) and iteration raise TypeError on None.
RaisesOnNone(v) == v.isNone

Max(a, b) == IF a >= b THEN a ELSE b
Min(a, b) == IF a <= b THEN a ELSE b

\* round(num / den * 100) for 0 <= num <= den, den > 0: nearest integer, ties to even.
RoundPercent(num, den) ==
    LET q == (100 * num) \div den
        r == (100 * num) % den
    IN  IF 2 * r < den THEN q
        ELSE IF 2 * r > den THEN q + 1
        ELSE IF q % 2 = 0 THEN q ELSE q + 1

(***************************************************************************)
(* get_budget_tier                                                         *)
(***************************************************************************)
\* Mutant: the boundaries compared with <= instead of <.
get_budget_tier_Inclusive(budget) ==
    IF budget <= 1000000 THEN "low"
    ELSE IF budget <= 3000000 THEN "medium"
    ELSE IF budget <= 5000000 THEN "high"
    ELSE "unlimited"

get_budget_tier(budget) ==
    IF budget < 1000000 THEN "low"
    ELSE IF budget < 3000000 THEN "medium"
    ELSE IF budget < 5000000 THEN "high"
    ELSE "unlimited"

(***************************************************************************)
(* The advisor.  A reply is a sequence of tokens: "{" and "}" are braces,  *)
(* a member key stands for a well-formed  "key": value  member, and any    *)
(* other token is text that is not JSON.                                   *)
(***************************************************************************)
MemberKeys == {"specific_units", "deployment_zones", "tactical_notes", "priority_targets"}

NoneText == [isNone |-> TRUE, text |-> <<>>]
SomeText(t) == [isNone |-> FALSE, text |-> t]

\* What the network does with one request: it fails, or content comes back.
NetError == [kind |-> "error", text |-> <<>>]
NetTimeout == [kind |-> "timeout", text |-> <<>>]
NetReply(t) == [kind |-> "reply", text |-> t]

\* call_groq_llama: None without a key, None on any exception, else the content.
call_groq_llama(key, net) ==
    IF key = "" THEN NoneText
    ELSE IF net.kind # "reply" THEN NoneText
    ELSE SomeText(net.text)

\* str.find("{"): index (from 0) of the first "{", or -1
find_open(t) ==
    IF \E i \in 1..Len(t) : t[i] = "{"
    THEN (CHOOSE i \in 1..Len(t) : t[i] = "{" /\ \A j \in 1..(i-1) : t[j] # "{") - 1
    ELSE -1

\* str.rfind("}"): index (from 0) of the last "}", or -1
rfind_close(t) ==
    IF \E i \in 1..Len(t) : t[i] = "}"
    THEN (CHOOSE i \in 1..Len(t) : t[i] = "}" /\ \A j \in (i+1)..Len(t) : t[j] # "}") - 1
    ELSE -1

\* json.loads of text[json_start:json_end], which begins with "{" and ends with "}":
\* a dict when everything between the braces is a member, JSONDecodeError otherwise.
DecodeError(t, json_start, json_end) ==
    \E i \in (json_start + 2)..(json_end - 1) : t[i] \notin MemberKeys

DecodedKeys(t, json_start, json_end) ==
    {t[i] : i \in (json_start + 2)..(json_end - 1)}

NoneDict == [isNone |-> TRUE, keys |-> {}]
Dict(keys) == [isNone |-> FALSE, keys |-> keys]

\* The shared tail of the three generate_* functions: extract the JSON object
\* from the reply, or None.
extract_json(llama_response) ==
    IF llama_response.isNone \/ llama_response.text = <<>> THEN NoneDict
    ELSE LET t == llama_response.text
             json_start == find_open(t)
             json_end == rfind_close(t) + 1
         IN  IF json_start >= 0 /\ json_end > json_start
             THEN IF DecodeError(t, json_start, json_end) THEN NoneDict
                  ELSE Dict(DecodedKeys(t, json_start, json_end))
             ELSE NoneDict

(***************************************************************************)
(* The store.  A fault names the statement at which the store fails        *)
(* (sqlite3.Error: unreachable, locked, disk full); "none" means it works. *)
(***************************************************************************)
SubmitFaults == {"none", "connect", "insert", "scenario_stats", "custom_defense_stats", "commit"}
RecommendFaults == {"none", "connect", "select"}

\* created_at DEFAULT CURRENT_TIMESTAMP has a resolution of one second.  The
\* model counts seconds from the first insert: `elapsed` is 0 when the insert
\* falls in the second of the previous one and 1 when the clock has moved on.
Now(elapsed) ==
    IF simulations = <<>> THEN 0
    ELSE simulations[Len(simulations)].created_at + elapsed

\* INSERT INTO simulations: the row the handler builds from the payload.
\* spent, timer, enemies, initial_positions and custom_map_name are stored and
\* read by nothing the model covers; they are left out of the row.
SimulationRow(id, data, created_at) ==
    [id |-> id,
     created_at |-> created_at,
     session_id |-> Get(data, "session_id", ""),
     map |-> Get(data, "map", ""),
     enemy |-> Get(data, "enemy", ""),
     budget |-> Get(data, "budget", 0),
     result |-> Get(data, "result", ""),
     allies |-> json_dumps(Get(data, "allies", JsonList(<<>>))),
     mode |-> Get(data, "mode", "standard")]

\* 1 if data.get('result') == 'victory' else 0
VictoryFlag(data) == IF Get(data, "result", "") = "victory" THEN 1 ELSE 0

\* Mutant: the conflict target leaves the budget tier out.
UpsertScenarioStats_NoTier(stats, map_name, enemy_type, budget_tier, won) ==
    LET hit(r) == SqlEq(r.map, map_name) /\ SqlEq(r.enemy, enemy_type)
    IN  IF \E r \in stats : hit(r)
        THEN {IF hit(r)
              THEN [r EXCEPT !.total_battles = @ + 1, !.victories = @ + won]
              ELSE r : r \in stats}
        ELSE stats \cup {[id |-> Cardinality(stats) + 1,
                          map |-> map_name, enemy |-> enemy_type, budget_tier |-> budget_tier,
                          total_battles |-> 1, victories |-> won]}

\* INSERT INTO scenario_stats ... ON CONFLICT(map, enemy, budget_tier) DO UPDATE.
\* No row is ever deleted, so a new row's id is the number of rows plus one.
UpsertScenarioStats(stats, map_name, enemy_type, budget_tier, won) ==
    LET hit(r) == /\ SqlEq(r.map, map_name)
                  /\ SqlEq(r.enemy, enemy_type)
                  /\ SqlEq(r.budget_tier, budget_tier)
    IN  IF \E r \in stats : hit(r)
        THEN {IF hit(r)
              THEN [r EXCEPT !.total_battles = @ + 1, !.victories = @ + won]
              ELSE r : r \in stats}
        ELSE stats \cup {[id |-> Cardinality(stats) + 1,
                          map |-> map_name, enemy |-> enemy_type, budget_tier |-> budget_tier,
                          total_battles |-> 1, victories |-> won]}

\* avg_units_used is REAL; the model keeps it as the fraction num/den in lowest terms.
RECURSIVE GCD(_, _)
GCD(a, b) == IF b = 0 THEN a ELSE GCD(b, a % b)

Fraction(num, den) ==
    LET g == GCD(num, den) IN [num |-> num \div g, den |-> den \div g]

\* (avg_units_used * total_tests + num_units) / (total_tests + 1)
NextAverage(avg, total_tests, num_units) ==
    Fraction(avg.num * total_tests + num_units * avg.den, avg.den * (total_tests + 1))

\* INSERT INTO custom_defense_stats ... ON CONFLICT(map, enemy) DO UPDATE
UpsertCustomDefenseStats(stats, map_name, enemy_type, won, num_units) ==
    LET hit(r) == SqlEq(r.map, map_name) /\ SqlEq(r.enemy, enemy_type)
    IN  IF \E r \in stats : hit(r)
        THEN {IF hit(r)
              THEN [r EXCEPT !.total_tests = @ + 1,
                             !.defenses_held = @ + won,
                             !.avg_units_used = NextAverage(r.avg_units_used, r.total_tests, num_units)]
              ELSE r : r \in stats}
        ELSE stats \cup {[id |-> Cardinality(stats) + 1,
                          map |-> map_name, enemy |-> enemy_type, total_tests |-> 1,
                          defenses_held |-> won, avg_units_used |-> Fraction(num_units, 1)]}

(***************************************************************************)
(* Post-battle feedback (after the commit).                                *)
(***************************************************************************)
\* generate_post_battle_feedback takes len(allies) and iterates allies while it
\* builds the prompt, before any network call: None raises TypeError.
PostBattleFeedbackRaises(data) == RaisesOnNone(Get(data, "allies", JsonList(<<>>)))

generate_post_battle_feedback(key, net) == extract_json(call_groq_llama(key, net))

\* generate_defense_feedback iterates allies too, and is reached only when the
\* first feedback did not raise.
generate_defense_feedback(key, net) == extract_json(call_groq_llama(key, net))

(***************************************************************************)
(* Responses.                                                              *)
(***************************************************************************)
NoRequest == [op |-> "none"]
NoResponse == [status |-> 0]
NoContext == [built |-> FALSE]

SubmitOk(sim_id, mode, ai_feedback, defense_feedback) ==
    [status |-> 200, success |-> TRUE, simulation_id |-> sim_id,
     message |-> "Simulation recorded", mode |-> mode,
     ai_feedback |-> ai_feedback, defense_feedback |-> defense_feedback]

SubmitError(e) == [status |-> 500, success |-> FALSE, error |-> e]

(***************************************************************************)
(* POST /api/submit                                                        *)
(***************************************************************************)
\* the network outcomes of the advisor calls a handler issued: a call without
\* a key returns before it reaches the network
NetsUsed(key, nets) == IF key = "" THEN <<>> ELSE nets

submit_simulation(data, fault, net1, net2, elapsed) ==
    LET mode == Get(data, "mode", "standard")
        allies == Get(data, "allies", JsonList(<<>>))
        sim_id == sqlite_sequence + 1
        row == SimulationRow(sim_id, data, Now(elapsed))
        budget_tier == get_budget_tier(Get(data, "budget", 0))
        map_name == Get(data, "map", "")
        enemy_type == Get(data, "enemy", "")
        won == VictoryFlag(data)
        stats1 == UpsertScenarioStats(scenario_stats, map_name, enemy_type, budget_tier, won)
        custom == mode = "custom_defense"
        custom1 == IF custom
                   THEN UpsertCustomDefenseStats(custom_defense_stats, map_name, enemy_type,
                                                 won, Len(allies.items))
                   ELSE custom_defense_stats
        \* the first statement that raises before the commit completes, if any
        raisedBefore ==
            IF fault \in {"connect", "insert", "scenario_stats"} THEN fault
            ELSE IF custom /\ RaisesOnNone(allies) THEN "TypeError"
            ELSE IF custom /\ fault = "custom_defense_stats" THEN fault
            ELSE IF fault = "commit" THEN fault
            ELSE "none"
        raisedAfter ==
            IF PostBattleFeedbackRaises(data) THEN "TypeError" ELSE "none"
        ai_feedback == generate_post_battle_feedback(GROQ_API_KEY, net1)
        defense_feedback == IF custom THEN generate_defense_feedback(GROQ_API_KEY, net2)
                            ELSE NoneDict
    IN  /\ Len(simulations) < MaxSims
        /\ req' = [op |-> "submit", data |-> data]
        /\ context' = NoContext
        /\ UNCHANGED <<GROQ_API_KEY, threads, db_lock>>
        /\ IF raisedBefore # "none"
           THEN \* the connection is dropped uncommitted: nothing of the transaction stays
                /\ UNCHANGED tables
                /\ env' = [fault |-> IF raisedBefore = "TypeError" THEN "none" ELSE raisedBefore,
                           nets |-> <<>>]
                /\ resp' = SubmitError(raisedBefore)
           ELSE \* conn.commit()
                /\ simulations' = Append(simulations, row)
                /\ sqlite_sequence' = sim_id
                /\ scenario_stats' = stats1
                /\ custom_defense_stats' = custom1
                /\ IF raisedAfter # "none"
                   THEN /\ env' = [fault |-> "none", nets |-> <<>>]
                        /\ resp' = SubmitError(raisedAfter)
                   ELSE /\ env' = [fault |-> "none",
                                   nets |-> NetsUsed(GROQ_API_KEY,
                                                     IF custom THEN <<net1, net2>> ELSE <<net1>>)]
                        /\ resp' = SubmitOk(sim_id, mode, ai_feedback, defense_feedback)

(***************************************************************************)
(* The fallback rule engine.                                               *)
(***************************************************************************)
Unit(name, count, reason) == [name |-> name, count |-> count, reason |-> reason]

\* Mutant: an empty enemy type returns before the enemy-specific units are added.
get_fallback_units_EmptyGuard(enemy_type, budget) ==
    LET recon == IF budget >= RAVEN_MIN_BUDGET
                 THEN <<Unit("RQ-11 Raven", 2, "Reliable recon platform")>>
                 ELSE <<>>
    IN  IF enemy_type = "" THEN recon
        ELSE IF enemy_type = "guerrilla"
        THEN recon \o <<Unit("Custom FPV Drone", 15, "Effective against infantry swarms"),
                        Unit("Switchblade 300", 8, "Precision anti-infantry")>>
        ELSE IF enemy_type = "mercenary"
        THEN recon \o <<Unit("Raytheon Coyote", 5, "Counter fast targets"),
                        Unit("Switchblade 300", 10, "Rapid elimination"),
                        Unit("Custom FPV Drone", 8, "Backup firepower")>>
        ELSE recon \o <<Unit("Anduril Anvil", 4, "Counter-drone capability"),
                        Unit("Switchblade 600", 5, "Heavy strike power"),
                        Unit("Switchblade 300", 6, "Anti-infantry support"),
                        Unit("Custom FPV Drone", 12, "Swarm assault")>>

get_fallback_units(enemy_type, budget) ==
    (IF budget >= RAVEN_MIN_BUDGET
     THEN <<Unit("RQ-11 Raven", 2, "Reliable recon platform")>>
     ELSE <<>>)
    \o
    (IF enemy_type = "guerrilla"
     THEN <<Unit("Custom FPV Drone", 15, "Effective against infantry swarms"),
            Unit("Switchblade 300", 8, "Precision anti-infantry")>>
     ELSE IF enemy_type = "mercenary"
     THEN <<Unit("Raytheon Coyote", 5, "Counter fast targets"),
            Unit("Switchblade 300", 10, "Rapid elimination"),
            Unit("Custom FPV Drone", 8, "Backup firepower")>>
     ELSE <<Unit("Anduril Anvil", 4, "Counter-drone capability"),
            Unit("Switchblade 600", 5, "Heavy strike power"),
            Unit("Switchblade 300", 6, "Anti-infantry support"),
            Unit("Custom FPV Drone", 12, "Swarm assault")>>)

Zone(cat, x, y, description) == [cat |-> cat, x |-> x, y |-> y, description |-> description]

\* The dict of zones, as the set of its entries.
get_fallback_positions(map_name) ==
    {Zone("recon", 50, 85, "Center rear for maximum coverage"),
     Zone("attack", 30, 90, "Left flank approach"),
     Zone("defense", 70, 90, "Right side protection")}

get_fallback_notes(enemy_type) ==
    IF enemy_type = "army"
    THEN <<"Focus on counter-drone operations first", "Expect organized resistance with drone support">>
    ELSE IF enemy_type = "guerrilla"
    THEN <<"Spread FPV swarm wide to catch scattered infantry", "Infantry will use cover effectively">>
    ELSE IF enemy_type = "mercenary"
    THEN <<"Defense line MUST intercept fast movers early", "Expect aggressive flanking maneuvers">>
    ELSE <<"Assess threat before committing forces">>

(***************************************************************************)
(* What the advisor's JSON object holds under each key.  The values are    *)
(* the advisor's own; the model gives them names no rule of the engine     *)
(* uses.                                                                   *)
(***************************************************************************)
AdvisorUnits == <<Unit("advisor unit", 1, "advisor reason")>>
AdvisorZones == {Zone("recon", 10, 10, "advisor zone")}
AdvisorNotes == <<"advisor note">>
AdvisorTargets == <<"advisor target">>

\* ai_recs.get(key, default)
DictGet(d, key, value, default) == IF key \in d.keys THEN value ELSE default

\* `if ai_recs:` is false for None and for the empty dict
Truthy(d) == ~d.isNone /\ d.keys # {}

(***************************************************************************)
(* generate_ai_recommendations: the prompt built from the history.         *)
(***************************************************************************)
\* SELECT * FROM simulations WHERE map = ? AND enemy = ?
Matching(map_name, enemy_type) ==
    SelectSeq(simulations, LAMBDA r : SqlEq(r.map, map_name) /\ SqlEq(r.enemy, enemy_type))

\* ... ORDER BY created_at DESC: SQL leaves the order of rows with equal
\* created_at open, so every order that respects created_at is a result.
RECURSIVE Orderings(_, _)
Orderings(rows, left) ==
    IF left = {} THEN {<<>>}
    ELSE LET newest == {i \in left : \A j \in left : rows[i].created_at >= rows[j].created_at}
         IN  UNION {{<<rows[i]>> \o t : t \in Orderings(rows, left \ {i})} : i \in newest}

\* ... LIMIT 50
SelectHistorical(map_name, enemy_type) ==
    LET rows == Matching(map_name, enemy_type)
    IN  {SubSeq(h, 1, Min(Len(h), HISTORY_LIMIT)) : h \in Orderings(rows, 1..Len(rows))}

\* SELECT * FROM scenario_stats WHERE map = ? AND enemy = ? AND budget_tier = ?
SelectStats(map_name, enemy_type, budget_tier) ==
    {r \in scenario_stats :
        /\ SqlEq(r.map, map_name)
        /\ SqlEq(r.enemy, enemy_type)
        /\ SqlEq(r.budget_tier, budget_tier)}

\* wins = [d for d in historical_data if d['result'] == 'victory']
Wins(historical) == SelectSeq(historical, LAMBDA d : d.result = "victory")

\* `for ally in allies` raises TypeError when a winning row stored null for allies
ContextRaises(historical) ==
    \E i \in 1..Len(Wins(historical)) : RaisesOnNone(json_loads(Wins(historical)[i].allies))

\* every ally of every win, in the order the two loops visit them
RECURSIVE WinningAllies(_)
WinningAllies(wins) ==
    IF wins = <<>> THEN <<>>
    ELSE json_loads(wins[1].allies).items \o WinningAllies(Tail(wins))

AllyName(ally) == Get(ally, "name", "Unknown")

\* the keys of winning_units, in insertion order
RECURSIVE FirstSeen(_, _)
FirstSeen(allies, seen) ==
    IF allies = <<>> THEN <<>>
    ELSE IF AllyName(allies[1]) \in seen THEN FirstSeen(Tail(allies), seen)
    ELSE <<AllyName(allies[1])>> \o FirstSeen(Tail(allies), seen \cup {AllyName(allies[1])})

RECURSIVE SumKills(_, _)
SumKills(allies, name) ==
    IF allies = <<>> THEN 0
    ELSE (IF AllyName(allies[1]) = name THEN Get(allies[1], "kills", 0) ELSE 0)
         + SumKills(Tail(allies), name)

\* winning_units[name]
UnitStats(allies, name) ==
    [name |-> name,
     count |-> Len(SelectSeq(allies, LAMBDA a : AllyName(a) = name)),
     total_kills |-> SumKills(allies, name)]

\* key=lambda x: total_kills / max(1, count), compared without dividing
KeyLess(a, b) == a.total_kills * Max(1, b.count) < b.total_kills * Max(1, a.count)

\* sorted(..., reverse=True) is stable: x goes after every entry whose key is not less
RECURSIVE InsertByKey(_, _)
InsertByKey(sorted, x) ==
    IF sorted = <<>> THEN <<x>>
    ELSE IF KeyLess(sorted[1], x) THEN <<x>> \o sorted
    ELSE <<sorted[1]>> \o InsertByKey(Tail(sorted), x)

RECURSIVE SortedByKey(_, _)
SortedByKey(items, acc) ==
    IF items = <<>> THEN acc
    ELSE SortedByKey(Tail(items), InsertByKey(acc, items[1]))

unit_effectiveness(historical) ==
    LET allies == WinningAllies(Wins(historical))
        names == FirstSeen(allies, {})
        items == [i \in 1..Len(names) |-> UnitStats(allies, names[i])]
    IN  SortedByKey(items, <<>>)

Head5(s) == SubSeq(s, 1, Min(Len(s), TOP_UNITS))

\* the facts the prompt states: the counts and the lines of unit_effectiveness[:5]
BuildContext(historical) ==
    IF historical # <<>>
    THEN [built |-> TRUE, total_battles |-> Len(historical),
          wins |-> Len(Wins(historical)),
          units |-> Head5(unit_effectiveness(historical))]
    ELSE [built |-> TRUE, total_battles |-> 0, wins |-> 0, units |-> <<>>]

generate_ai_recommendations(key, net) == extract_json(call_groq_llama(key, net))

(***************************************************************************)
(* POST /api/recommend                                                     *)
(***************************************************************************)
\* Mutant: the error body of get_global_stats, which carries no data_points.
RecommendError_NoDataPoints(e) == [status |-> 500, error |-> e]

RecommendError(e) == [status |-> 500, data_points |-> 0, error |-> e]

OverallWinRate(stats) ==
    IF stats = {} THEN 0
    ELSE LET row == CHOOSE r \in stats : TRUE
         IN  IF row.total_battles > 0
             THEN RoundPercent(row.victories, row.total_battles)
             ELSE 0

RecommendOk(data_points, overall_win_rate, ai_recs, enemy_type, map_name, budget) ==
    LET head == [status |-> 200,
                 data_points |-> data_points,
                 overall_win_rate |-> overall_win_rate,
                 ai_enhanced |-> ~ai_recs.isNone,
                 simulation_count |-> BASE_SIMULATION_COUNT + data_points * 3]
    IN  IF Truthy(ai_recs)
        THEN head @@
             [specific_units |-> DictGet(ai_recs, "specific_units", AdvisorUnits, <<>>),
              deployment_zones |-> DictGet(ai_recs, "deployment_zones", AdvisorZones, {}),
              tactical_notes |-> DictGet(ai_recs, "tactical_notes", AdvisorNotes, <<>>),
              priority_targets |-> DictGet(ai_recs, "priority_targets", AdvisorTargets, <<>>)]
        ELSE head @@
             [specific_units |-> get_fallback_units(enemy_type, budget),
              deployment_zones |-> get_fallback_positions(map_name),
              tactical_notes |-> get_fallback_notes(enemy_type)]

get_recommendations(data, fault, net) ==
    LET map_name == Get(data, "map", "")
        enemy_type == Get(data, "enemy", "")
        budget == Get(data, "budget", DEFAULT_RECOMMEND_BUDGET)
        budget_tier == get_budget_tier(budget)
        stats == SelectStats(map_name, enemy_type, budget_tier)
        ai_recs == generate_ai_recommendations(GROQ_API_KEY, net)
    IN  /\ req' = [op |-> "recommend", data |-> data]
        /\ UNCHANGED <<tables, GROQ_API_KEY, threads, db_lock>>
        /\ IF fault # "none"
           THEN /\ resp' = RecommendError(fault)
                /\ env' = [fault |-> fault, nets |-> <<>>]
                /\ context' = NoContext
           ELSE \E historical \in SelectHistorical(map_name, enemy_type) :
                IF ContextRaises(historical)
                THEN /\ resp' = RecommendError("TypeError")
                     /\ env' = [fault |-> "none", nets |-> <<>>]
                     /\ context' = NoContext
                ELSE /\ context' = BuildContext(historical)
                     /\ env' = [fault |-> "none", nets |-> NetsUsed(GROQ_API_KEY, <<net>>)]
                     /\ resp' = RecommendOk(Len(historical), OverallWinRate(stats), ai_recs,
                                            enemy_type, map_name, budget)

(***************************************************************************)
(* GET /api/stats                                                          *)
(***************************************************************************)
\* round((num / den) * 100) if den > 0 else 0
PercentOrZero(num, den) == IF den > 0 THEN RoundPercent(num, den) ELSE 0

GlobalStatsError(e) == [status |-> 500, error |-> e]

GlobalStatsOk ==
    LET total_sims == Len(simulations)
        \* SELECT COUNT(*) FROM simulations WHERE ...
        rows == 1..Len(simulations)
        total_wins == Cardinality({i \in rows : simulations[i].result = "victory"})
        \* COUNT(DISTINCT session_id) leaves NULL out
        unique_players == Cardinality({simulations[i].session_id : i \in 1..Len(simulations)}
                                      \ {NULL})
        custom_defense_tests ==
            Cardinality({i \in rows : simulations[i].mode = "custom_defense"})
        defenses_held ==
            Cardinality({i \in rows : /\ simulations[i].mode = "custom_defense"
                                      /\ simulations[i].result = "victory"})
    IN  [status |-> 200,
         total_simulations |-> total_sims,
         total_victories |-> total_wins,
         global_win_rate |-> PercentOrZero(total_wins, total_sims),
         unique_players |-> unique_players,
         custom_defense_tests |-> custom_defense_tests,
         defenses_held |-> defenses_held,
         defense_success_rate |-> PercentOrZero(defenses_held, custom_defense_tests),
         ai_enabled |-> GROQ_API_KEY # "",
         base_simulation_count |-> BASE_SIMULATION_COUNT]

\* Mutant: the handler stores the totals it computed as a custom_defense_stats row.
get_global_stats_Stored(fault) ==
    /\ req' = [op |-> "stats"]
    /\ context' = NoContext
    /\ env' = [fault |-> fault, nets |-> <<>>]
    /\ resp' = IF fault # "none" THEN GlobalStatsError(fault) ELSE GlobalStatsOk
    /\ custom_defense_stats' =
          IF fault # "none" THEN custom_defense_stats
          ELSE UpsertCustomDefenseStats(custom_defense_stats, "global", "all", 0, 0)
    /\ UNCHANGED <<simulations, sqlite_sequence, scenario_stats, GROQ_API_KEY, threads, db_lock>>

get_global_stats(fault) ==
    /\ req' = [op |-> "stats"]
    /\ context' = NoContext
    /\ env' = [fault |-> fault, nets |-> <<>>]
    /\ resp' = IF fault # "none" THEN GlobalStatsError(fault) ELSE GlobalStatsOk
    /\ UNCHANGED <<tables, GROQ_API_KEY, threads, db_lock>>

(***************************************************************************)
(* The handlers, statement by statement.  app.run() serves each request in *)
(* a thread of its own; every request opens its own connection.  SQLite    *)
(* lets one connection at a time hold the write lock: the first write      *)
(* statement of a transaction takes it, commit gives it back.  Until the   *)
(* commit the statements of a transaction act on that connection's copy    *)
(* of the tables, and readers see the tables as last committed.            *)
(***************************************************************************)
Threads == 1..MaxThreads

NoLocals == [none |-> TRUE]

IdleThread ==
    [pc |-> "idle", req |-> NoRequest, conn |-> "none", calls |-> 0,
     local |-> NoLocals, raised |-> "none"]

LockFree == [state |-> "free", by |-> 0]
LockHeld(t) == [state |-> "held", by |-> t]
\* held by a connection whose handler returned without conn.close()
LockLeaked == [state |-> "leaked", by |-> 0]

\* Mutant: no write lock, every connection writes on its own snapshot.
WriteLockAvailable_Always(t) == t \in Threads

\* the write statement of thread t gets the lock when no connection holds it
WriteLockAvailable(t) == t \in Threads /\ db_lock.state = "free"

\* ingests that were accepted and have not committed or failed yet
InFlightIngests ==
    Cardinality({t \in Threads : threads[t].pc \in {"insert", "scenario_stats",
                                                    "custom_defense_stats", "commit"}})

\* data = request.json; conn = get_db(); cursor = conn.cursor()
submit_begin(t, data) ==
    /\ threads[t].pc = "idle"
    /\ Len(simulations) + InFlightIngests < MaxSims
    /\ threads' = [threads EXCEPT ![t] =
                      [IdleThread EXCEPT !.pc = "insert",
                                         !.req = [op |-> "submit", data |-> data],
                                         !.conn = "open"]]
    /\ UNCHANGED <<tables, GROQ_API_KEY, req, env, resp, context, db_lock>>

\* INSERT INTO simulations; sim_id = cursor.lastrowid
submit_insert(t, elapsed) ==
    LET data == threads[t].req.data
        sim_id == sqlite_sequence + 1
        row == SimulationRow(sim_id, data, Now(elapsed))
    IN  /\ threads[t].pc = "insert"
        /\ WriteLockAvailable(t)
        /\ db_lock' = LockHeld(t)
        /\ threads' = [threads EXCEPT ![t].pc = "scenario_stats",
                                      ![t].local =
                                          [sim_id |-> sim_id,
                                           simulations |-> Append(simulations, row),
                                           sqlite_sequence |-> sim_id,
                                           scenario_stats |-> scenario_stats,
                                           custom_defense_stats |-> custom_defense_stats]]
        /\ UNCHANGED <<tables, GROQ_API_KEY, req, env, resp, context>>

\* budget_tier = get_budget_tier(...); INSERT INTO scenario_stats ... ON CONFLICT
submit_scenario_stats(t) ==
    LET data == threads[t].req.data
        work == threads[t].local
    IN  /\ threads[t].pc = "scenario_stats"
        /\ threads' = [threads EXCEPT ![t].pc = "custom_defense_stats",
                                      ![t].local.scenario_stats =
                                          UpsertScenarioStats(work.scenario_stats,
                                              Get(data, "map", ""), Get(data, "enemy", ""),
                                              get_budget_tier(Get(data, "budget", 0)),
                                              VictoryFlag(data))]
        /\ UNCHANGED <<tables, GROQ_API_KEY, req, env, resp, context, db_lock>>

\* if mode == 'custom_defense': num_units = len(...); INSERT INTO custom_defense_stats
submit_custom_defense_stats(t) ==
    LET data == threads[t].req.data
        work == threads[t].local
        allies == Get(data, "allies", JsonList(<<>>))
        custom == Get(data, "mode", "standard") = "custom_defense"
    IN  /\ threads[t].pc = "custom_defense_stats"
        /\ threads' =
             IF custom /\ RaisesOnNone(allies)
             THEN [threads EXCEPT ![t].pc = "except", ![t].raised = "TypeError"]
             ELSE IF custom
             THEN [threads EXCEPT ![t].pc = "commit",
                                  ![t].local.custom_defense_stats =
                                      UpsertCustomDefenseStats(work.custom_defense_stats,
                                          Get(data, "map", ""), Get(data, "enemy", ""),
                                          VictoryFlag(data), Len(allies.items))]
             ELSE [threads EXCEPT ![t].pc = "commit"]
        /\ UNCHANGED <<tables, GROQ_API_KEY, req, env, resp, context, db_lock>>

\* conn.commit(); conn.close()
submit_commit(t) ==
    LET work == threads[t].local
    IN  /\ threads[t].pc = "commit"
        /\ simulations' = work.simulations
        /\ sqlite_sequence' = work.sqlite_sequence
        /\ scenario_stats' = work.scenario_stats
        /\ custom_defense_stats' = work.custom_defense_stats
        /\ db_lock' = LockFree
        /\ threads' = [threads EXCEPT ![t].pc = "feedback", ![t].conn = "closed"]
        /\ UNCHANGED <<GROQ_API_KEY, req, env, resp, context>>

\* a statement of the transaction raises sqlite3.Error: "database is locked"
\* when the lock stays taken for the five seconds a connection waits, or the
\* store fails otherwise
submit_raise(t) ==
    /\ threads[t].pc \in {"insert", "scenario_stats", "custom_defense_stats", "commit"}
    /\ threads' = [threads EXCEPT ![t].pc = "except", ![t].raised = threads[t].pc]
    /\ UNCHANGED <<tables, GROQ_API_KEY, req, env, resp, context, db_lock>>

\* generate_post_battle_feedback, generate_defense_feedback, return jsonify(...)
submit_feedback(t, net1, net2) ==
    LET data == threads[t].req.data
        mode == Get(data, "mode", "standard")
        custom == mode = "custom_defense"
        ai_feedback == generate_post_battle_feedback(GROQ_API_KEY, net1)
        defense_feedback == IF custom THEN generate_defense_feedback(GROQ_API_KEY, net2)
                            ELSE NoneDict
    IN  /\ threads[t].pc = "feedback"
        /\ req' = threads[t].req
        /\ context' = NoContext
        /\ IF PostBattleFeedbackRaises(data)
           THEN /\ env' = [fault |-> "none", nets |-> <<>>]
                /\ resp' = SubmitError("TypeError")
           ELSE /\ env' = [fault |-> "none",
                           nets |-> NetsUsed(GROQ_API_KEY,
                                             IF custom THEN <<net1, net2>> ELSE <<net1>>)]
                /\ resp' = SubmitOk(threads[t].local.sim_id, mode, ai_feedback, defense_feedback)
        /\ threads' = [threads EXCEPT ![t] = IdleThread]
        /\ UNCHANGED <<tables, GROQ_API_KEY, db_lock>>

\* except Exception: the handler returns the error without conn.close(); the
\* transaction of the abandoned connection keeps the lock until the
\* connection object is finalized
submit_except(t) ==
    /\ threads[t].pc = "except"
    /\ threads[t].req.op = "submit"
    /\ req' = threads[t].req
    /\ context' = NoContext
    /\ env' = [fault |-> IF threads[t].raised = "TypeError" THEN "none" ELSE threads[t].raised,
               nets |-> <<>>]
    /\ resp' = SubmitError(threads[t].raised)
    /\ db_lock' = IF db_lock = LockHeld(t) THEN LockLeaked ELSE db_lock
    /\ threads' = [threads EXCEPT ![t] = IdleThread]
    /\ UNCHANGED <<tables, GROQ_API_KEY>>

\* the abandoned connection is finalized: its transaction is rolled back
finalize_connection ==
    /\ db_lock.state = "leaked"
    /\ db_lock' = LockFree
    /\ UNCHANGED <<tables, GROQ_API_KEY, req, env, resp, context, threads>>

\* data = request.json ... conn = get_db(); cursor = conn.cursor()
recommend_begin(t, data) ==
    /\ threads[t].pc = "idle"
    /\ threads' = [threads EXCEPT ![t] =
                      [IdleThread EXCEPT !.pc = "select",
                                         !.req = [op |-> "recommend", data |-> data],
                                         !.conn = "open"]]
    /\ UNCHANGED <<tables, GROQ_API_KEY, req, env, resp, context, db_lock>>

\* Mutant: the connection is closed at the end of the handler instead.
recommend_select_KeepOpen(t) ==
    LET data == threads[t].req.data
        map_name == Get(data, "map", "")
        enemy_type == Get(data, "enemy", "")
        budget_tier == get_budget_tier(Get(data, "budget", DEFAULT_RECOMMEND_BUDGET))
    IN  /\ threads[t].pc = "select"
        /\ \E historical \in SelectHistorical(map_name, enemy_type) :
              threads' = [threads EXCEPT
                  ![t].pc = "generate",
                  ![t].local = [historical |-> historical,
                                overall_win_rate |->
                                    OverallWinRate(SelectStats(map_name, enemy_type, budget_tier))]]
        /\ UNCHANGED <<tables, GROQ_API_KEY, req, env, resp, context, db_lock>>

\* the two SELECTs, conn.close(), data_points and overall_win_rate
recommend_select(t) ==
    LET data == threads[t].req.data
        map_name == Get(data, "map", "")
        enemy_type == Get(data, "enemy", "")
        budget_tier == get_budget_tier(Get(data, "budget", DEFAULT_RECOMMEND_BUDGET))
    IN  /\ threads[t].pc = "select"
        /\ \E historical \in SelectHistorical(map_name, enemy_type) :
              threads' = [threads EXCEPT
                  ![t].pc = "generate",
                  ![t].conn = "closed",
                  ![t].local = [historical |-> historical,
                                overall_win_rate |->
                                    OverallWinRate(SelectStats(map_name, enemy_type, budget_tier))]]
        /\ UNCHANGED <<tables, GROQ_API_KEY, req, env, resp, context, db_lock>>

\* a SELECT raises sqlite3.Error
recommend_raise(t) ==
    /\ threads[t].pc = "select"
    /\ threads' = [threads EXCEPT ![t].pc = "except", ![t].raised = "select"]
    /\ UNCHANGED <<tables, GROQ_API_KEY, req, env, resp, context, db_lock>>

\* generate_ai_recommendations up to the request of call_groq_llama: the prompt
\* is built from the history; without a key call_groq_llama returns None at once
recommend_generate(t) ==
    LET historical == threads[t].local.historical
    IN  /\ threads[t].pc = "generate"
        /\ threads' =
             IF ContextRaises(historical)
             THEN [threads EXCEPT ![t].pc = "except", ![t].raised = "TypeError"]
             ELSE IF GROQ_API_KEY = ""
             THEN [threads EXCEPT ![t].pc = "respond",
                                  ![t].local = threads[t].local @@
                                      [context |-> BuildContext(historical),
                                       nets |-> <<>>,
                                       ai_recs |-> generate_ai_recommendations(GROQ_API_KEY, NetError)]]
             ELSE [threads EXCEPT ![t].pc = "urlopen",
                                  ![t].calls = @ + 1,
                                  ![t].local = threads[t].local @@
                                      [context |-> BuildContext(historical)]]
        /\ UNCHANGED <<tables, GROQ_API_KEY, req, env, resp, context, db_lock>>

\* urlopen(req, timeout=30) returns content, raises, or times out; the reply is
\* parsed into ai_recs
recommend_urlopen(t, net) ==
    /\ threads[t].pc = "urlopen"
    /\ threads' = [threads EXCEPT ![t].pc = "respond",
                                  ![t].local = threads[t].local @@
                                      [nets |-> <<net>>,
                                       ai_recs |-> generate_ai_recommendations(GROQ_API_KEY, net)]]
    /\ UNCHANGED <<tables, GROQ_API_KEY, req, env, resp, context, db_lock>>

\* response = {...}; return jsonify(response)
recommend_respond(t) ==
    LET data == threads[t].req.data
        local == threads[t].local
    IN  /\ threads[t].pc = "respond"
        /\ req' = threads[t].req
        /\ context' = local.context
        /\ env' = [fault |-> "none", nets |-> local.nets]
        /\ resp' = RecommendOk(Len(local.historical), local.overall_win_rate, local.ai_recs,
                               Get(data, "enemy", ""), Get(data, "map", ""),
                               Get(data, "budget", DEFAULT_RECOMMEND_BUDGET))
        /\ threads' = [threads EXCEPT ![t] = IdleThread]
        /\ UNCHANGED <<tables, GROQ_API_KEY, db_lock>>

\* except Exception: return jsonify({'data_points': 0, 'error': str(e)}), 500
recommend_except(t) ==
    /\ threads[t].pc = "except"
    /\ threads[t].req.op = "recommend"
    /\ req' = threads[t].req
    /\ context' = NoContext
    /\ env' = [fault |-> IF threads[t].raised = "TypeError" THEN "none" ELSE threads[t].raised,
               nets |-> <<>>]
    /\ resp' = RecommendError(threads[t].raised)
    /\ threads' = [threads EXCEPT ![t] = IdleThread]
    /\ UNCHANGED <<tables, GROQ_API_KEY, db_lock>>

(***************************************************************************)
(* Start-up: init_db() creates the empty tables; the credential is read    *)
(* from the environment once.                                              *)
(***************************************************************************)
NoEnv == [fault |-> "none", nets |-> <<>>]

Init ==
    /\ simulations = <<>>
    /\ sqlite_sequence = 0
    /\ scenario_stats = {}
    /\ custom_defense_stats = {}
    /\ GROQ_API_KEY \in {"", "gsk_configured"}
    /\ req = NoRequest
    /\ env = NoEnv
    /\ resp = NoResponse
    /\ context = NoContext
    /\ threads = [t \in Threads |-> IdleThread]
    /\ db_lock = LockFree

(***************************************************************************)
(* Inputs.                                                                 *)
(***************************************************************************)
raven == [name |-> "RQ-11 Raven", kills |-> 1]
fpv == [name |-> "Custom FPV Drone", kills |-> 3]
unnamed == [kills |-> 0]

EmptyObject == <<"{", "}">>
UnitsObject == <<"{", "specific_units", "}">>

\* Ingest payloads that carry every field: both modes, allies well-formed or null.
Payloads ==
    {[session_id |-> "s1", map |-> "gaza", enemy |-> "army", budget |-> 999999,
      result |-> "victory", mode |-> m, allies |-> a] :
        m \in {"standard", "custom_defense"},
        a \in {JsonNull, JsonList(<<raven>>), JsonList(<<fpv, raven>>)}}

RecommendRequests ==
    {[map |-> m, enemy |-> "army", budget |-> 2000000] : m \in {"gaza", "kabul"}}
    \cup {[map |-> "gaza", enemy |-> "army", budget |-> 999999]}

Nets == {NetError, NetReply(EmptyObject), NetReply(UnitsObject)}

Submit ==
    \E data \in Payloads, fault \in SubmitFaults :
        submit_simulation(data, fault, NetReply(UnitsObject), NetError, 1)

Recommend ==
    \E data \in RecommendRequests, fault \in RecommendFaults, net \in Nets :
        get_recommendations(data, fault, net)

Next == Submit \/ Recommend

Spec == Init /\ [][Next]_vars


(***************************************************************************)
(* SpecValidation: ingest payloads that lack some of map, enemy, result.   *)
(***************************************************************************)
RequiredFields == {"map", "enemy", "result"}

FullPayload ==
    [session_id |-> "s1", map |-> "gaza", enemy |-> "army", budget |-> 999999,
     result |-> "victory", mode |-> "standard", allies |-> JsonList(<<raven>>)]

Without(data, fields) == [k \in (DOMAIN data) \ fields |-> data[k]]

PartialPayloads == {Without(FullPayload, fields) : fields \in SUBSET RequiredFields}

Lacks(data) == \E f \in RequiredFields : f \notin DOMAIN data

SubmitPartial ==
    \E data \in PartialPayloads, fault \in {"none", "insert", "commit"},
       net1 \in {NetError, NetReply(UnitsObject)} :
        submit_simulation(data, fault, net1, net1, 1)

RecommendPartial ==
    \E data \in {[map |-> "gaza", enemy |-> "army", budget |-> 999999],
                 [map |-> "", enemy |-> "", budget |-> 0],
                 [map |-> "", enemy |-> "army"]},
       fault \in {"none", "select"}, net \in {NetError, NetReply(UnitsObject)} :
        get_recommendations(data, fault, net)

NextValidation == SubmitPartial \/ RecommendPartial

SpecValidation == Init /\ [][NextValidation]_vars

(***************************************************************************)
(* SpecAggregate: ingests over two budget tiers, both results, well-formed *)
(* and null allies, with the store failing at any statement.               *)
(***************************************************************************)
AggregatePayloads ==
    {[session_id |-> "s1", map |-> "gaza", enemy |-> "army", budget |-> b,
      result |-> r, mode |-> "standard", allies |-> a] :
        b \in {999999, 1000000},
        r \in {"victory", "defeat"},
        a \in {JsonNull, JsonList(<<raven>>)}}

SubmitAggregate ==
    \E data \in AggregatePayloads, fault \in SubmitFaults :
        submit_simulation(data, fault, NetError, NetError, 1)

RecommendAggregate ==
    \E data \in {[map |-> "gaza", enemy |-> "army", budget |-> b] : b \in {999999, 1000000, 3000000}} :
        get_recommendations(data, "none", NetError)

NextAggregate == SubmitAggregate \/ RecommendAggregate

SpecAggregate == Init /\ [][NextAggregate]_vars

(***************************************************************************)
(* SpecTier: ingests and recommends at the tier boundaries.                *)
(***************************************************************************)
TierBudgets == {999999, 1000000, 2999999, 3000000, 4999999, 5000000}

TierPayloads ==
    {[session_id |-> "s1", map |-> "gaza", enemy |-> "army", budget |-> b,
      result |-> r, mode |-> "standard", allies |-> JsonList(<<raven>>)] :
        b \in TierBudgets, r \in {"victory", "defeat"}}

SubmitTier ==
    \E data \in TierPayloads : submit_simulation(data, "none", NetError, NetError, 1)

RecommendTier ==
    \E data \in {[map |-> "gaza", enemy |-> "army", budget |-> b] : b \in TierBudgets} :
        get_recommendations(data, "none", NetError)

NextTier == SubmitTier \/ RecommendTier

\* No advisor call bears on the tiers: the credential stays unset here.
InitNoCredential == Init /\ GROQ_API_KEY = ""

SpecTier == InitNoCredential /\ [][NextTier]_vars

(***************************************************************************)
(* SpecAdvisor: recommends under every advisor outcome: no credential,     *)
(* network error, timeout, and every reply of at most MaxTextLen tokens.   *)
(***************************************************************************)
Tokens == {"{", "}", "specific_units", "tactical_notes", "prose"}

RECURSIVE TextsUpTo(_)
TextsUpTo(n) ==
    IF n = 0 THEN {<<>>}
    ELSE LET shorter == TextsUpTo(n - 1)
         IN  shorter \cup {Append(t, k) : t \in {u \in shorter : Len(u) = n - 1}, k \in Tokens}

AdvisorNets == {NetError, NetTimeout} \cup {NetReply(t) : t \in TextsUpTo(MaxTextLen)}

SubmitAdvisor ==
    \E net1 \in {NetError, NetReply(UnitsObject)} :
        submit_simulation(FullPayload, "none", net1, net1, 1)

RecommendAdvisor ==
    \E data \in {[map |-> "gaza", enemy |-> e, budget |-> 2000000] : e \in {"army", "guerrilla"}},
       net \in AdvisorNets :
        get_recommendations(data, "none", net)

NextAdvisor == SubmitAdvisor \/ RecommendAdvisor

SpecAdvisor == Init /\ [][NextAdvisor]_vars

(***************************************************************************)
(* SpecFallback: recommends for recognized and unrecognized enemy types on *)
(* both sides of the budget threshold of the rule engine.                  *)
(***************************************************************************)
EnemyTypes == {"army", "guerrilla", "mercenary", "navy", "pirates", ""}

SubmitFallback ==
    \E data \in {FullPayload, [FullPayload EXCEPT !.enemy = "navy", !.result = "defeat"]} :
        submit_simulation(data, "none", NetError, NetError, 1)

RecommendFallback ==
    \E data \in {[map |-> m, enemy |-> e, budget |-> b] :
                    m \in {"gaza", "kabul"}, e \in EnemyTypes, b \in {499999, 500000}},
       net \in {NetError, NetReply(UnitsObject)} :
        get_recommendations(data, "none", net)

NextFallback == SubmitFallback \/ RecommendFallback

SpecFallback == Init /\ [][NextFallback]_vars

(***************************************************************************)
(* SpecPrompt: ingests whose allies differ, so that the prompt ranks       *)
(* several units.                                                          *)
(***************************************************************************)
PromptPayloads ==
    {[session_id |-> "s1", map |-> "gaza", enemy |-> "army", budget |-> 999999,
      result |-> r, mode |-> "standard", allies |-> JsonList(a)] :
        r \in {"victory", "defeat"},
        a \in {<<raven>>, <<fpv, raven>>, <<unnamed, fpv>>}}

SubmitPrompt ==
    \E data \in PromptPayloads, elapsed \in {0, 1} :
        submit_simulation(data, "none", NetError, NetError, elapsed)

RecommendPrompt ==
    \E data \in {[map |-> m, enemy |-> "army", budget |-> 999999] : m \in {"gaza", "kabul"}},
       net \in {NetError, NetReply(UnitsObject)} :
        get_recommendations(data, "none", net)

NextPrompt == SubmitPrompt \/ RecommendPrompt

SpecPrompt == Init /\ [][NextPrompt]_vars

(***************************************************************************)
(* SpecRecommendSteps: a recommend taken statement by statement while      *)
(* ingests commit between its statements.  Recommends share nothing but    *)
(* the tables, which change only at a commit, so one thread is stepped and *)
(* the requests of the other threads are the ingests taken whole.  A       *)
(* thread that has a statement to run runs it in the end: the scheduler is *)
(* fair, a SELECT returns or raises, and urlopen returns, raises or times  *)
(* out after 30 seconds.                                                   *)
(***************************************************************************)
SteppedThreads == {CHOOSE t \in Threads : TRUE}

UrlopenOutcomes == {NetError, NetTimeout, NetReply(UnitsObject)}

SubmitHistory ==
    \E data \in {FullPayload, [FullPayload EXCEPT !.allies = JsonNull]} :
        submit_simulation(data, "none", NetError, NetError, 1)

RecommendBegin ==
    \E t \in SteppedThreads :
        recommend_begin(t, [map |-> "gaza", enemy |-> "army", budget |-> 999999])

RecommendSelect == \E t \in SteppedThreads : recommend_select(t)

RecommendRaise == \E t \in SteppedThreads : recommend_raise(t)

RecommendGenerate == \E t \in SteppedThreads : recommend_generate(t)

RecommendUrlopen ==
    \E t \in SteppedThreads, net \in UrlopenOutcomes : recommend_urlopen(t, net)

RecommendRespond == \E t \in SteppedThreads : recommend_respond(t)

RecommendExcept == \E t \in SteppedThreads : recommend_except(t)

NextRecommendSteps ==
    \/ SubmitHistory
    \/ RecommendBegin
    \/ RecommendSelect
    \/ RecommendRaise
    \/ RecommendGenerate
    \/ RecommendUrlopen
    \/ RecommendRespond
    \/ RecommendExcept

\* the statements thread t runs once its recommend is under way
RecommendRuns(t) ==
    \/ recommend_select(t)
    \/ recommend_generate(t)
    \/ \E net \in UrlopenOutcomes : recommend_urlopen(t, net)
    \/ recommend_respond(t)
    \/ recommend_except(t)

SpecRecommendSteps ==
    /\ Init
    /\ [][NextRecommendSteps]_vars
    /\ \A t \in Threads : WF_vars(RecommendRuns(t))

(***************************************************************************)
(* SpecIngestSteps: ingests for one scenario key taken statement by        *)
(* statement in MaxThreads threads: a victory, a defeat whose allies are   *)
(* null (the handler raises after the commit) and a custom defense whose   *)
(* allies are null (the handler raises before the commit).                 *)
(***************************************************************************)
IngestPayloads ==
    {FullPayload,
     [FullPayload EXCEPT !.result = "defeat", !.allies = JsonNull],
     [FullPayload EXCEPT !.mode = "custom_defense", !.allies = JsonNull]}

IngestBegin == \E t \in Threads, data \in IngestPayloads : submit_begin(t, data)

IngestInsert == \E t \in Threads : submit_insert(t, 1)

IngestScenarioStats == \E t \in Threads : submit_scenario_stats(t)

IngestCustomDefenseStats == \E t \in Threads : submit_custom_defense_stats(t)

IngestCommit == \E t \in Threads : submit_commit(t)

IngestRaise == \E t \in Threads : submit_raise(t)

IngestFeedback == \E t \in Threads : submit_feedback(t, NetError, NetError)

IngestExcept == \E t \in Threads : submit_except(t)

NextIngestSteps ==
    \/ IngestBegin
    \/ IngestInsert
    \/ IngestScenarioStats
    \/ IngestCustomDefenseStats
    \/ IngestCommit
    \/ IngestRaise
    \/ IngestFeedback
    \/ IngestExcept
    \/ finalize_connection

SpecIngestSteps == InitNoCredential /\ [][NextIngestSteps]_vars

(***************************************************************************)
(* SpecReadOnly: recommends under every advisor outcome and store fault,   *)
(* and the global statistics, over ingests of both modes.                  *)
(***************************************************************************)
SubmitReadOnly ==
    \E data \in {FullPayload,
                 [FullPayload EXCEPT !.mode = "custom_defense", !.result = "defeat"],
                 [FullPayload EXCEPT !.allies = JsonNull]} :
        submit_simulation(data, "none", NetError, NetError, 1)

RecommendReadOnly ==
    \E data \in {[map |-> "gaza", enemy |-> "army", budget |-> 999999],
                 [map |-> "kabul", enemy |-> "army"]},
       fault \in RecommendFaults,
       net \in {NetError, NetTimeout, NetReply(EmptyObject), NetReply(UnitsObject)} :
        get_recommendations(data, fault, net)

Stats == \E fault \in {"none", "select"} : get_global_stats(fault)

NextReadOnly == SubmitReadOnly \/ RecommendReadOnly \/ Stats

SpecReadOnly == Init /\ [][NextReadOnly]_vars

(***************************************************************************)
(* SpecCustomDefense: ingests of both modes and results with one or two    *)
(* allies, for a named map and for a payload whose map is JSON null.       *)
(***************************************************************************)
CustomDefensePayloads ==
    {[session_id |-> "s1", map |-> m, enemy |-> "army", budget |-> 999999,
      result |-> r, mode |-> mode, allies |-> JsonList(a)] :
        m \in {"gaza", NULL},
        r \in {"victory", "defeat"},
        mode \in {"standard", "custom_defense"},
        a \in {<<raven>>, <<fpv, raven>>}}

SubmitCustomDefense ==
    \E data \in CustomDefensePayloads, fault \in {"none", "custom_defense_stats"} :
        submit_simulation(data, fault, NetError, NetError, 1)

StatsCustomDefense == get_global_stats("none")

NextCustomDefense == SubmitCustomDefense \/ StatsCustomDefense

SpecCustomDefense == InitNoCredential /\ [][NextCustomDefense]_vars

(***************************************************************************)
(* Claims.                                                                 *)
(***************************************************************************)

\* C1: whenever an ingest request is answered with an error (success = false),
\* the simulations, scenario_stats and custom_defense_stats tables are exactly
\* as they were before the request.
C1_ErrorLeavesTablesUntouched ==
    [][(req'.op = "submit" /\ resp'.status = 500 /\ ~resp'.success) => UNCHANGED tables]_vars

\* C2: an ingest payload that lacks map, enemy or result is rejected before any
\* write: simulations and scenario_stats keep their rows, and the caller gets
\* an error and no battle identifier.
C2_IncompletePayloadRejected ==
    [][(req'.op = "submit" /\ Lacks(req'.data))
        => /\ UNCHANGED <<simulations, scenario_stats>>
           /\ ~resp'.success
           /\ "simulation_id" \notin DOMAIN resp']_vars

\* C3: every scenario_stats row is reconstructible from the stored simulations:
\* for each key (map, enemy, budget tier) total_battles is the number of stored
\* simulations with that map, enemy and get_budget_tier(budget), victories the
\* number of those with result 'victory'; a key has at most one row, and a key
\* with no stored simulation has none.
SimsOfKey(map_name, enemy_type, budget_tier) ==
    {i \in 1..Len(simulations) :
        /\ simulations[i].map = map_name
        /\ simulations[i].enemy = enemy_type
        /\ get_budget_tier(simulations[i].budget) = budget_tier}

C3_StatsReconstructible ==
    /\ \A r \in scenario_stats :
        LET sims == SimsOfKey(r.map, r.enemy, r.budget_tier)
        IN  /\ sims # {}
            /\ r.total_battles = Cardinality(sims)
            /\ r.victories = Cardinality({i \in sims : simulations[i].result = "victory"})
            /\ r.victories <= r.total_battles
    /\ \A r1, r2 \in scenario_stats :
        (r1.map = r2.map /\ r1.enemy = r2.enemy /\ r1.budget_tier = r2.budget_tier) => r1 = r2
    /\ \A i \in 1..Len(simulations) :
        \E r \in scenario_stats :
            /\ r.map = simulations[i].map
            /\ r.enemy = simulations[i].enemy
            /\ r.budget_tier = get_budget_tier(simulations[i].budget)

\* C3 witness: two tiers hold rows, one of them counting a defeat after a
\* victory, and an ingest has just failed.
C3_Witness ==
    /\ Cardinality(scenario_stats) = 2
    /\ \E r \in scenario_stats : r.total_battles = 2 /\ r.victories = 1
    /\ req.op = "submit" /\ resp.status = 500

\* C4: get_budget_tier is the step function low < 1,000,000 <= medium <
\* 3,000,000 <= high < 5,000,000 <= unlimited, and ingest and recommend use the
\* same tier for the same budget: every stored simulation is counted in the
\* scenario_stats row of the tier the step function gives its budget, and a
\* recommend reports the win rate (rounded to a whole percentage) of the row of
\* the tier it gives the requested budget.
StepTier(budget) ==
    CASE budget <= 999999 -> "low"
      [] budget >= 1000000 /\ budget <= 2999999 -> "medium"
      [] budget >= 3000000 /\ budget <= 4999999 -> "high"
      [] budget >= 5000000 -> "unlimited"

RowsOfTier(map_name, enemy_type, tier) ==
    {r \in scenario_stats : r.map = map_name /\ r.enemy = enemy_type /\ r.budget_tier = tier}

C4_TierIsStepFunction ==
    /\ \A tier \in {"low", "medium", "high", "unlimited"} :
        LET sims == {i \in 1..Len(simulations) : StepTier(simulations[i].budget) = tier}
            rows == RowsOfTier("gaza", "army", tier)
        IN  IF sims = {} THEN rows = {}
            ELSE \E r \in rows : r.total_battles = Cardinality(sims)
    /\ (req.op = "recommend" /\ resp.status = 200) =>
        LET rows == RowsOfTier(req.data.map, req.data.enemy, StepTier(req.data.budget))
        IN  IF rows = {} THEN resp.overall_win_rate = 0
            ELSE \E r \in rows :
                    \* the percentage victories/total_battles, to the nearest integer
                    /\ 2 * (resp.overall_win_rate * r.total_battles - 100 * r.victories)
                            <= r.total_battles
                    /\ 2 * (100 * r.victories - resp.overall_win_rate * r.total_battles)
                            <= r.total_battles

\* C4 witness: a victory at 3,000,000 and a defeat at 2,999,999 are stored, and
\* a recommend at 3,000,000 reports the high tier's 100 %.
C4_Witness ==
    /\ \E r \in scenario_stats : r.budget_tier = "medium" /\ r.victories = 0
    /\ \E r \in scenario_stats : r.budget_tier = "high" /\ r.victories = 1
    /\ req.op = "recommend" /\ req.data.budget = 3000000
    /\ resp.status = 200 /\ resp.overall_win_rate = 100

\* The request fields as the handler reads them.
ReqMap == Get(req.data, "map", "")
ReqEnemy == Get(req.data, "enemy", "")
ReqBudget == Get(req.data, "budget", DEFAULT_RECOMMEND_BUDGET)

\* The last request was a recommend during which the store did not fail.
Recommended == req.op = "recommend" /\ env.fault = "none"

\* The response carries the units, zones and notes of the fallback rule engine.
FromFallback ==
    /\ resp.specific_units = get_fallback_units(ReqEnemy, ReqBudget)
    /\ resp.deployment_zones = get_fallback_positions(ReqMap)
    /\ resp.tactical_notes = get_fallback_notes(ReqEnemy)

\* The response carries what the advisor's JSON object holds.
FromAdvisor ==
    /\ "priority_targets" \in DOMAIN resp
    /\ resp.specific_units \in {AdvisorUnits, <<>>}
    /\ resp.deployment_zones \in {AdvisorZones, {}}
    /\ resp.tactical_notes \in {AdvisorNotes, <<>>}

\* What the advisor gave the last recommend: nothing (no credential, no call,
\* network error, timeout), or the reply's text.
AdvisorReply ==
    IF env.nets = <<>> THEN NoneText ELSE call_groq_llama(GROQ_API_KEY, env.nets[1])

\* The advisor failed or its reply is unusable: no reply, no JSON object in it,
\* malformed JSON, or an object with no member.
AdvisorUnusable ==
    \/ extract_json(AdvisorReply).isNone
    \/ extract_json(AdvisorReply).keys = {}

\* C5: whenever the advisor fails or its reply is unusable, the recommend
\* succeeds with the fallback rule engine's units, zones and notes and
\* ai_enhanced = false; ai_enhanced is true only when the units, zones and
\* notes come from the advisor's response.
C5_UnusableAdvisorMeansFallback ==
    (Recommended /\ resp.status = 200) =>
        /\ AdvisorUnusable => (FromFallback /\ ~resp.ai_enhanced)
        /\ resp.ai_enhanced => FromAdvisor

\* C6: a recommend issued while the store holds no battle for the scenario
\* returns data_points = 0, confidence = 0 and the fallback rule engine's
\* composition for the requested enemy type.
C6_EmptyScenarioGetsDefaults ==
    (Recommended /\ Matching(ReqMap, ReqEnemy) = <<>>) =>
        /\ resp.status = 200
        /\ resp.data_points = 0
        /\ "confidence" \in DOMAIN resp
        /\ resp.confidence = 0
        /\ FromFallback

\* C7: the fallback rule engine answers every enemy type and changes no table,
\* and every enemy type outside its table gets the same entry: two recommends
\* in a row that both fall back, for unrecognized enemy types and the same
\* budget, return the same units, notes and zones.
Recognized == {"army", "guerrilla", "mercenary"}

FellBack(q, r) ==
    /\ q.op = "recommend"
    /\ r.status = 200
    /\ "priority_targets" \notin DOMAIN r

C7_FallbackTotalAndGeneric ==
    [][FellBack(req', resp') =>
        /\ UNCHANGED tables
        /\ Len(resp'.specific_units) > 0
        /\ Len(resp'.tactical_notes) > 0
        /\ resp'.deployment_zones # {}
        /\ (/\ FellBack(req, resp)
            /\ req.data.enemy \notin Recognized
            /\ req'.data.enemy \notin Recognized
            /\ req.data.budget = req'.data.budget)
           => /\ resp'.specific_units = resp.specific_units
              /\ resp'.tactical_notes = resp.tactical_notes
              /\ resp'.deployment_zones = resp.deployment_zones]_vars

\* C7 witness: with battles in the store, a recommend for the empty enemy type
\* and a budget under the recon threshold fell back to the generic entry.
C7_Witness ==
    /\ FellBack(req, resp)
    /\ req.data.enemy = ""
    /\ req.data.budget = 499999
    /\ Len(simulations) > 0
    /\ resp.tactical_notes = <<"Assess threat before committing forces">>

\* C8: when the store is unreachable or a step of the recommendation path
\* raises, recommend answers with data_points = 0 and an error indicator, and
\* no recommend, failed or not, modifies a table.
RecommendFailed ==
    /\ req.op = "recommend"
    /\ \/ env.fault # "none"
       \/ \E historical \in SelectHistorical(ReqMap, ReqEnemy) : ContextRaises(historical)

C8_RecommendDegrades ==
    [][req'.op = "recommend" =>
        /\ UNCHANGED tables
        /\ RecommendFailed' =>
            /\ "data_points" \in DOMAIN resp'
            /\ resp'.data_points = 0
            /\ "error" \in DOMAIN resp'
            /\ "specific_units" \notin DOMAIN resp']_vars

\* C8 witness: the store is reachable and holds a battle of the scenario, and
\* the recommendation path raised while it read the history.
C8_Witness ==
    /\ RecommendFailed
    /\ env.fault = "none"
    /\ Matching(ReqMap, ReqEnemy) # <<>>
    /\ resp.status = 500 /\ resp.data_points = 0

\* C9: recommend reports confidence = min(100, 5 * n), n the number of stored
\* simulations of the scenario.
ScenarioSize ==
    Cardinality({i \in 1..Len(simulations) :
                    simulations[i].map = ReqMap /\ simulations[i].enemy = ReqEnemy})

C9_ConfidenceIsFiveTimesN ==
    (Recommended /\ resp.status = 200) =>
        /\ "confidence" \in DOMAIN resp
        /\ resp.confidence = Min(100, 5 * ScenarioSize)

\* C10: a unit composition with two samples or fewer for the scenario is not
\* among the top compositions recommend uses: every unit the prompt ranks was
\* deployed in at least three stored battles of the scenario.
Samples(name) ==
    Cardinality({i \in 1..Len(simulations) :
        /\ simulations[i].map = ReqMap
        /\ simulations[i].enemy = ReqEnemy
        /\ \E k \in 1..Len(simulations[i].allies.items) :
                AllyName(simulations[i].allies.items[k]) = name})

C10_TopUnitsHaveThreeSamples ==
    (Recommended /\ context.built) =>
        \A k \in 1..Len(context.units) : Samples(context.units[k].name) >= 3

\* C11: a recommend request makes at most one advisor call attempt, the call is
\* issued only after the request's store connection is closed (and the request
\* holds no lock of the store while it waits for the advisor), and every
\* recommend request ends with a response, whether the attempt succeeds, fails
\* or times out.
C11_OneAttemptAfterCloseAndResponse ==
    /\ [](\A t \in Threads :
            threads[t].req.op = "recommend" =>
                /\ threads[t].calls <= 1
                /\ threads[t].pc = "urlopen" =>
                    /\ threads[t].calls = 1
                    /\ threads[t].conn = "closed"
                    /\ db_lock # LockHeld(t))
    /\ \A t \in Threads :
            (threads[t].req.op = "recommend") ~> (threads[t].pc = "idle")

\* C11 witness: a recommend whose single advisor attempt timed out is about to
\* respond, its connection closed, and an ingest was committed after it read
\* the history: the wait for the advisor did not hold the store.
C11_Witness ==
    \E t \in Threads :
        /\ threads[t].pc = "respond"
        /\ threads[t].calls = 1
        /\ threads[t].conn = "closed"
        /\ threads[t].local.nets = <<NetTimeout>>
        /\ Len(threads[t].local.historical) < Len(simulations)

\* C12: under any interleaving of concurrent ingests for one scenario key the
\* history is append-only and consistent: no stored row is changed or removed,
\* the identifiers of the rows are pairwise distinct, every commit adds exactly
\* one row under an identifier no row and no other ingest in flight has, an
\* ingest that reports success reports the identifier of its own row, and once
\* no ingest is in flight the scenario_stats counters of the key equal the
\* numbers of stored battles and of stored victories.
Committed(t) == threads[t].req.op = "submit" /\ threads[t].pc = "feedback"

RowsWithId(sims, id) == {i \in 1..Len(sims) : sims[i].id = id}

HistoryConsistent ==
    /\ \A i, j \in 1..Len(simulations) :
            i # j => simulations[i].id # simulations[j].id
    /\ \A t \in Threads :
            Committed(t) =>
                /\ Cardinality(RowsWithId(simulations, threads[t].local.sim_id)) = 1
                /\ \A u \in Threads \ {t} :
                        Committed(u) => threads[u].local.sim_id # threads[t].local.sim_id

Quiescent == \A t \in Threads : threads[t].pc = "idle"

CountersMatchHistory ==
    /\ \A r \in scenario_stats :
        /\ r.total_battles = Cardinality(SimsOfKey(r.map, r.enemy, r.budget_tier))
        /\ r.victories =
              Cardinality({i \in SimsOfKey(r.map, r.enemy, r.budget_tier) :
                              simulations[i].result = "victory"})
    /\ simulations # <<>> => Cardinality(scenario_stats) = 1

C12_ConcurrentIngestsConsistent ==
    [][/\ Len(simulations') >= Len(simulations)
       /\ \A i \in 1..Len(simulations) : simulations'[i] = simulations[i]
       /\ HistoryConsistent'
       /\ \A t \in Threads :
            /\ (threads[t].pc = "commit" /\ threads'[t].pc = "feedback") =>
                  /\ Len(simulations') = Len(simulations) + 1
                  /\ RowsWithId(simulations, threads[t].local.sim_id) = {}
                  /\ simulations'[Len(simulations')].id = threads[t].local.sim_id
            /\ (Committed(t) /\ threads'[t].pc = "idle" /\ resp'.success) =>
                  resp'.simulation_id = threads[t].local.sim_id
       /\ Quiescent' => CountersMatchHistory']_vars

\* C12 witness: two ingests were in flight together, one waited for the lock of
\* the other, both have committed and neither has responded yet; the key counts
\* two battles, one of them a victory.
C12_Witness ==
    /\ \A t \in Threads : Committed(t)
    /\ Len(simulations) >= 2
    /\ \E r \in scenario_stats : r.total_battles = Len(simulations) /\ r.victories = 1

\* C13: recommend and stats are read-only: whatever the input, the advisor
\* outcome and the store do, a recommend or stats request leaves simulations,
\* scenario_stats and custom_defense_stats (and the id counter) as they were;
\* and a recommend that repeats the previous request, with no other request
\* between them and the same outcome of the advisor and the store, returns the
\* same data_points and the same overall_win_rate.
C13_ReadsLeaveTablesAlone ==
    [][/\ req'.op \in {"recommend", "stats"} => UNCHANGED tables
       /\ (/\ req.op = "recommend"
           /\ req'.op = "recommend"
           /\ req'.data = req.data
           /\ env' = env)
          => /\ resp'.data_points = resp.data_points
             /\ ("overall_win_rate" \in DOMAIN resp') = ("overall_win_rate" \in DOMAIN resp)
             /\ "overall_win_rate" \in DOMAIN resp =>
                    resp'.overall_win_rate = resp.overall_win_rate]_vars

\* C13 witness: with rows in all three tables, a recommend enriched by the
\* advisor has reported the scenario's battles and a win rate.
C13_Witness ==
    /\ custom_defense_stats # {}
    /\ Cardinality(scenario_stats) > 0
    /\ req.op = "recommend"
    /\ resp.status = 200
    /\ resp.ai_enhanced
    /\ resp.data_points = Len(simulations)
    /\ resp.data_points >= 2
    /\ resp.overall_win_rate = 50

\* C14: after any sequence of ingests, every (map, enemy) of a stored custom
\* defense has one custom_defense_stats row, and every row satisfies:
\* total_tests is the number of stored simulations with mode 'custom_defense'
\* for its map and enemy, defenses_held the number of those with result
\* 'victory' (so defenses_held <= total_tests), and avg_units_used times
\* total_tests the total number of allies over those simulations; an ingest
\* whose mode is not 'custom_defense' leaves custom_defense_stats unchanged.
CustomSimsOf(map_name, enemy_type) ==
    {i \in 1..Len(simulations) :
        /\ simulations[i].mode = "custom_defense"
        /\ simulations[i].map = map_name
        /\ simulations[i].enemy = enemy_type}

\* the allies of the first n stored simulations that are among `sims`
RECURSIVE AlliesOver(_, _)
AlliesOver(sims, n) ==
    IF n = 0 THEN 0
    ELSE (IF n \in sims THEN Len(simulations[n].allies.items) ELSE 0) + AlliesOver(sims, n - 1)

CustomDefenseStatsMatch ==
    /\ \A r \in custom_defense_stats :
        LET sims == CustomSimsOf(r.map, r.enemy)
        IN  /\ r.total_tests = Cardinality(sims)
            /\ r.defenses_held = Cardinality({i \in sims : simulations[i].result = "victory"})
            /\ r.defenses_held <= r.total_tests
            /\ r.avg_units_used.num * r.total_tests
                  = AlliesOver(sims, Len(simulations)) * r.avg_units_used.den
    /\ \A r1, r2 \in custom_defense_stats :
        (r1.map = r2.map /\ r1.enemy = r2.enemy) => r1 = r2
    /\ \A i \in 1..Len(simulations) :
        simulations[i].mode = "custom_defense" =>
            \E r \in custom_defense_stats :
                r.map = simulations[i].map /\ r.enemy = simulations[i].enemy

C14_CustomDefenseStatsReconstructible ==
    [][/\ CustomDefenseStatsMatch'
       /\ (req'.op = "submit" /\ Get(req'.data, "mode", "standard") # "custom_defense")
            => UNCHANGED custom_defense_stats]_vars

====
